---------------------------- MODULE Spec2Model ----------------------------
(***************************************************************************)
(* CTB2Dep: conversion of bracketed phrase trees to dependency rows.       *)
(*                                                                         *)
(* Python strings are modelled as sequences of one-character strings, so   *)
(* that split('-'), split('|'), split(':'), split(';'), split(), format    *)
(* and int() are computed, not assumed.  A tree is the sequence of its     *)
(* nodes in preorder; node n is [label, parent, token] with parent = 0 for *)
(* the root (ParentedTree.parent() is None) and token meaningful only on a *)
(* node without child nodes (an nltk tree of height 2).                    *)
(***************************************************************************)
EXTENDS Integers, Sequences, FiniteSets, TLC

VARIABLES
    pc,          \* position of the running program
    head_rules,  \* Convertor.head_rules / the dict `rules` being loaded
    tree,        \* convert: the tree returned by ParentedTree.fromstring
    ptree,       \* __parse: the tree returned by _preprosess
    sequences,   \* __parse: the (tag, token) list returned by _preprosess
    mtree,       \* __parse: the tree returned by __mark_heads
    relations,   \* __parse: the list returned by _get_relations
    parsed,      \* convert: the 4-tuples returned by __parse
    deps,        \* convert: the returned text
    err,         \* the exception that ended the program, or "none"
    rule_file,   \* the lines of head_rules.txt
    f_in,        \* the lines of ctb.bracketed
    f_out,       \* the strings written to ctb.conll, in order
    lineno       \* number of lines of the file being read consumed so far

vars == <<pc, head_rules, tree, ptree, sequences, mtree, relations, parsed,
          deps, err, rule_file, f_in, f_out, lineno>>

----------------------------------------------------------------------------
(* Bounds of the model.                                                    *)

MaxNodes == 5

MaxRuleLines == 2

MaxLines == 3

----------------------------------------------------------------------------
(* Python string primitives.                                               *)

NoRules == [x \in {} |-> <<>>]

Range(s) == {s[i] : i \in DOMAIN s}

\* sep.join(ss)
RECURSIVE Join(_, _)
Join(ss, sep) ==
    IF ss = <<>> THEN <<>>
    ELSE IF Len(ss) = 1 THEN ss[1]
    ELSE ss[1] \o sep \o Join(Tail(ss), sep)

\* s.split(c) for a one-character separator c: always at least one part
RECURSIVE Split(_, _)
Split(s, c) ==
    IF \A i \in DOMAIN s : s[i] # c THEN <<s>>
    ELSE LET k == CHOOSE i \in DOMAIN s :
                      s[i] = c /\ \A j \in 1..(i - 1) : s[j] # c
         IN  <<SubSeq(s, 1, k - 1)>> \o Split(SubSeq(s, k + 1, Len(s)), c)

Whitespace == {" ", "\t", "\n"}

\* s.split(): runs of whitespace separate, empty parts are dropped
RECURSIVE SplitWS(_)
SplitWS(s) ==
    IF \A i \in DOMAIN s : s[i] \in Whitespace THEN <<>>
    ELSE LET a == CHOOSE i \in DOMAIN s :
                      s[i] \notin Whitespace
                      /\ \A j \in 1..(i - 1) : s[j] \in Whitespace
             rest == SubSeq(s, a, Len(s))
             n == IF \A i \in DOMAIN rest : rest[i] \notin Whitespace
                  THEN Len(rest)
                  ELSE (CHOOSE i \in DOMAIN rest :
                            rest[i] \in Whitespace
                            /\ \A j \in 1..(i - 1) : rest[j] \notin Whitespace) - 1
         IN  <<SubSeq(rest, 1, n)>> \o SplitWS(SubSeq(rest, n + 1, Len(rest)))

Digits == <<"0", "1", "2", "3", "4", "5", "6", "7", "8", "9">>

DigitVal(c) == (CHOOSE d \in DOMAIN Digits : Digits[d] = c) - 1

\* '{}'.format(i) for an int i >= 0
RECURSIVE Str(_)
Str(i) == IF i < 10 THEN <<Digits[i + 1]>>
          ELSE Str(i \div 10) \o <<Digits[(i % 10) + 1]>>

\* whether int(s) returns (plain decimal digit strings; anything else met
\* here, a category or the empty string, makes int raise ValueError)
IsInt(s) == s # <<>> /\ \A i \in DOMAIN s : s[i] \in Range(Digits)

\* int(s)
RECURSIVE ToInt(_)
ToInt(s) == IF Len(s) = 1 THEN DigitVal(s[1])
            ELSE 10 * ToInt(SubSeq(s, 1, Len(s) - 1)) + DigitVal(s[Len(s)])

\* Python values that are an int in one place and a str in another
PyInt(i) == [t |-> "int", v |-> i]

PyStr(s) == [t |-> "str", v |-> s]

\* '{}'.format(x)
Format(x) == IF x.t = "int" THEN Str(x.v) ELSE x.v

----------------------------------------------------------------------------
(* _load_head_rules                                                        *)

\* {'direction': sub_rule[0], 'tags': sub_rule[1:]}
SubRule(sub_rule) == [direction |-> sub_rule[1], tags |-> Tail(sub_rule)]

\* One iteration of `for line in f`: the dict after the line, or the
\* exception the line raises.
LoadLine(rules, line) ==
    LET parts == Split(line, ":")
    IN  IF Len(parts) # 2
        THEN [err |-> "ValueError", rules |-> rules]   \* tag, rule = ...
        ELSE LET tag == parts[1]
                 subs == Split(parts[2], ";")
                 toks == [i \in DOMAIN subs |-> SplitWS(subs[i])]
             IN  IF \E i \in DOMAIN toks : toks[i] = <<>>
                 THEN [err |-> "IndexError", rules |-> rules]  \* sub_rule[0]
                 ELSE [err |-> "none",
                       rules |-> [x \in (DOMAIN rules) \cup {tag} |->
                                     IF x = tag
                                     THEN [i \in DOMAIN toks |-> SubRule(toks[i])]
                                     ELSE rules[x]]]

\* _load_head_rules as a whole
RECURSIVE LoadFrom(_, _)
LoadFrom(rules, lines) ==
    IF lines = <<>> THEN [err |-> "none", rules |-> rules]
    ELSE LET r == LoadLine(rules, Head(lines))
         IN  IF r.err # "none" THEN r ELSE LoadFrom(r.rules, Tail(lines))

_load_head_rules(lines) == LoadFrom(NoRules, lines)

----------------------------------------------------------------------------
(* Trees.                                                                  *)

\* `for subtree in tree`: the child nodes of node n, left to right
Children(t, n) ==
    SelectSeq([i \in 1..Len(t) |-> i], LAMBDA i : t[i].parent = n)

\* tree.height() == 2: the node holds a token and no subtree
_is_leaf(t, n) == Children(t, n) = <<>>

\* label.split('|')[0]
IndexOf(label) == Split(label, "|")[1]

----------------------------------------------------------------------------
(* _preprosess                                                             *)

\* faulty variant: keeps the text after the last '-' (split('-')[-1])
CleanLabelLast(label) ==
    IF "-" \in Range(label)
    THEN Split(label, "-")[Len(Split(label, "-"))] ELSE label

\* if '-' in tree.label(): tree.set_label(tree.label().split('-')[0])
CleanLabel(label) ==
    IF "-" \in Range(label) THEN Split(label, "-")[1] ELSE label

RECURSIVE PreIterate(_, _, _)
RECURSIVE PreSubtrees(_, _, _)

\* faulty variant: the loop never advances index
PreSubtreesStale(t, kids, index) ==
    IF kids = <<>> THEN [tree |-> t, items |-> <<>>]
    ELSE LET r == PreIterate(t, Head(kids), index)
             rest == PreSubtrees(r.tree, Tail(kids), index)
         IN  [tree |-> rest.tree, items |-> r.items \o rest.items]

\* `for subtree in tree: for _item in __iterate(subtree, index): ...`
\* index grows by one per item yielded so far
PreSubtrees(t, kids, index) ==
    IF kids = <<>> THEN [tree |-> t, items |-> <<>>]
    ELSE LET r == PreIterate(t, Head(kids), index)
             rest == PreSubtrees(r.tree, Tail(kids), index + Len(r.items))
         IN  [tree |-> rest.tree, items |-> r.items \o rest.items]

\* __iterate(tree, index) of _preprosess: the tree after the generator is
\* exhausted and the items it yields
PreIterate(t, n, index) ==
    LET t1 == [t EXCEPT ![n].label = CleanLabel(t[n].label)]
    IN  IF _is_leaf(t1, n)
        THEN [tree |-> [t1 EXCEPT ![n].token = index],
              items |-> << <<t1[n].label, t1[n].token>> >>]
        ELSE PreSubtrees(t1, Children(t1, n), index)

_preprosess(root) == PreIterate(root, 1, 1)

----------------------------------------------------------------------------
(* Convertor.__mark_heads                                                  *)

\* tree.set_label('{}|{}'.format(index, label))
SetHead(t, n, index) == [t EXCEPT ![n].label = index \o <<"|">> \o t[n].label]

\* sub_labels[::-1]
Reverse(s) == [i \in DOMAIN s |-> s[Len(s) + 1 - i]]

\* faulty variant: the first child in scan order carrying any of the tags
TryTagsByPosition(tags, sub_labels) ==
    IF tags = <<>> THEN [kind |-> "none"]
    ELSE IF \E i \in DOMAIN sub_labels : Len(sub_labels[i]) # 2
    THEN [kind |-> "ValueError"]
    ELSE IF \E i \in DOMAIN sub_labels : sub_labels[i][2] \in Range(tags)
    THEN LET k == CHOOSE i \in DOMAIN sub_labels :
                      sub_labels[i][2] \in Range(tags)
                      /\ \A j \in 1..(i - 1) : sub_labels[j][2] \notin Range(tags)
         IN  [kind |-> "head", index |-> sub_labels[k][1]]
    ELSE [kind |-> "none"]

\* `for tag in rule['tags']` over sub_labels already in scan order: the
\* index picked, "none" when no tag is among the children, or the
\* ValueError of unpacking `_i, _tag` from a label that has no single '|'
RECURSIVE TryTags(_, _)
TryTags(tags, sub_labels) ==
    IF tags = <<>> THEN [kind |-> "none"]
    ELSE IF \E i \in DOMAIN sub_labels : Len(sub_labels[i]) # 2
    THEN [kind |-> "ValueError"]
    ELSE IF \E i \in DOMAIN sub_labels : sub_labels[i][2] = Head(tags)
    THEN LET k == CHOOSE i \in DOMAIN sub_labels :
                      sub_labels[i][2] = Head(tags)
                      /\ \A j \in 1..(i - 1) : sub_labels[j][2] # Head(tags)
         IN  [kind |-> "head", index |-> sub_labels[k][1]]
    ELSE TryTags(Tail(tags), sub_labels)

\* `for rule in self.head_rules[label]`
RECURSIVE TryRules(_, _)
TryRules(rule_list, labels) ==
    IF rule_list = <<>> THEN [kind |-> "none"]
    ELSE LET rule == Head(rule_list)
             sub_labels == IF rule.direction = <<"r">>
                           THEN Reverse(labels) ELSE labels
         IN  IF rule.tags = <<>>
             THEN [kind |-> "head", index |-> sub_labels[1][1]]
             ELSE LET r == TryTags(rule.tags, sub_labels)
                  IN  IF r.kind = "none"
                      THEN TryRules(Tail(rule_list), labels)
                      ELSE r

\* faulty variant: the first child instead of the last
FirstChildIndex(t, kids) == IndexOf(t[kids[1]].label)

\* index = tree[-1].label().split('|')[0]
LastChildIndex(t, kids) == IndexOf(t[kids[Len(kids)]].label)

RECURSIVE MarkIterate(_, _, _)
RECURSIVE MarkSubtrees(_, _, _)

\* `for subtree in tree: __iterate(subtree)`; an exception ends the loop
MarkSubtrees(rules, t, kids) ==
    IF kids = <<>> THEN [tree |-> t, err |-> "none"]
    ELSE LET r == MarkIterate(rules, t, Head(kids))
         IN  IF r.err # "none" THEN r
             ELSE MarkSubtrees(rules, r.tree, Tail(kids))

\* __iterate(tree) of __mark_heads
MarkIterate(rules, t, n) ==
    LET label == t[n].label
    IN  IF _is_leaf(t, n)
        THEN [tree |-> SetHead(t, n, Str(t[n].token)), err |-> "none"]
        ELSE LET sub == MarkSubtrees(rules, t, Children(t, n))
                 kids == Children(t, n)
                 s == sub.tree
             IN  IF sub.err # "none" THEN sub
                 ELSE IF label \notin DOMAIN rules
                 THEN [tree |-> SetHead(s, n, LastChildIndex(s, kids)),
                       err |-> "none"]
                 ELSE LET labels == [i \in DOMAIN kids |->
                                        Split(s[kids[i]].label, "|")]
                          r == TryRules(rules[label], labels)
                      IN  CASE r.kind = "head" ->
                                 [tree |-> SetHead(s, n, r.index), err |-> "none"]
                            [] r.kind = "none" ->
                                 [tree |-> s, err |-> "none"]
                            [] OTHER ->
                                 [tree |-> s, err |-> r.kind]

__mark_heads(rules, root) == MarkIterate(rules, root, 1)

----------------------------------------------------------------------------
(* _get_relations                                                          *)

RECURSIVE RelIterate(_, _)
RECURSIVE RelSubtrees(_, _, _)

\* faulty variant: a relation for every child, the head child included
RelSubtreesAll(t, kids, parent_index) ==
    IF kids = <<>> THEN <<>>
    ELSE << <<IndexOf(t[Head(kids)].label), PyStr(parent_index)>> >>
         \o RelIterate(t, Head(kids))
         \o RelSubtrees(t, Tail(kids), parent_index)

\* faulty variant: the test for the root is inverted (`if tree.parent()`)
RelIterateInverted(t, n) ==
    LET parent_index == IndexOf(t[n].label)
    IN  (IF t[n].parent # 0
         THEN << <<parent_index, PyInt(0)>> >> ELSE <<>>)
        \o (IF ~_is_leaf(t, n)
            THEN RelSubtrees(t, Children(t, n), parent_index) ELSE <<>>)

\* the loop over the subtrees of a node whose index is parent_index
RelSubtrees(t, kids, parent_index) ==
    IF kids = <<>> THEN <<>>
    ELSE LET index == IndexOf(t[Head(kids)].label)
         IN  (IF index # parent_index
              THEN << <<index, PyStr(parent_index)>> >> ELSE <<>>)
             \o RelIterate(t, Head(kids))
             \o RelSubtrees(t, Tail(kids), parent_index)

\* __iterate(tree) of _get_relations: the items yielded, in order
RelIterate(t, n) ==
    LET parent_index == IndexOf(t[n].label)
    IN  (IF t[n].parent = 0
         THEN << <<parent_index, PyInt(0)>> >> ELSE <<>>)
        \o (IF ~_is_leaf(t, n)
            THEN RelSubtrees(t, Children(t, n), parent_index) ELSE <<>>)

\* insertion of r behind every item whose key is not greater (stable)
RECURSIVE Insert(_, _)
Insert(sorted, r) ==
    IF sorted = <<>> THEN <<r>>
    ELSE IF ToInt(Head(sorted)[1]) <= ToInt(r[1])
    THEN <<Head(sorted)>> \o Insert(Tail(sorted), r)
    ELSE <<r>> \o sorted

\* faulty variant: the relations are left in the order they were yielded
Unsorted(rs) == rs

RECURSIVE SortByIndex(_)
SortByIndex(rs) ==
    IF rs = <<>> THEN <<>>
    ELSE Insert(SortByIndex(SubSeq(rs, 1, Len(rs) - 1)), rs[Len(rs)])

\* sorted(__iterate(root), key=lambda r: int(r[0]))
_get_relations(root) ==
    LET rs == RelIterate(root, 1)
    IN  IF \E i \in DOMAIN rs : ~IsInt(rs[i][1])
        THEN [err |-> "ValueError", relations |-> <<>>]
        ELSE [err |-> "none", relations |-> SortByIndex(rs)]

----------------------------------------------------------------------------
(* Convertor.__parse and Convertor.convert                                 *)

Min(a, b) == IF a < b THEN a ELSE b

\* [(index, value, tag, parent) for (tag, value), (index, parent) in zip(...)]
ZipRelations(seqs, rels) ==
    [i \in 1..Min(Len(seqs), Len(rels)) |->
        <<rels[i][1], seqs[i][2], seqs[i][1], rels[i][2]>>]

\* '{}\t{}\t_\t_\t{}\t_\t{}\tX\t_\t_'.format(*args)
FormatRow(args) ==
    args[1] \o <<"\t">> \o args[2] \o <<"\t", "_", "\t", "_", "\t">>
    \o args[3] \o <<"\t", "_", "\t">> \o Format(args[4])
    \o <<"\t", "X", "\t", "_", "\t", "_">>

\* '\n'.join(lines) + '\n'
FormatRows(rels) ==
    Join([i \in DOMAIN rels |-> FormatRow(rels[i])], <<"\n">>) \o <<"\n">>

----------------------------------------------------------------------------
(* Inputs.                                                                 *)

\* Categories of the input trees: a phrase tag, a tag with a functional
\* suffix (cleaned to A) and a tag made of digits.
Cats == { <<"S">>, <<"A", "-", "X">>, <<"2">> }

\* The token text is only copied by the program; every leaf gets its own.
TokenAt(n) == <<"w", Digits[n + 1]>>

\* Parent vectors of the ordered trees with K nodes numbered in preorder.
TreeShapes(K) ==
    {par \in [1..K -> 0..(K - 1)] :
        /\ par[1] = 0
        /\ \A j \in 2..K : par[j] \in 1..(j - 1)
        /\ \A j \in 2..K : \A i \in (par[j] + 1)..(j - 1) : par[i] >= par[j]}

\* What ParentedTree.fromstring returns for a well-formed line: the tree of
\* shape par whose node n has category lab[n].
TreeOf(par, lab) ==
    [n \in DOMAIN par |->
        [label |-> lab[n], parent |-> par[n],
         token |-> IF \E m \in DOMAIN par : par[m] = n
                   THEN <<>> ELSE TokenAt(n)]]

\* Rule files the conversions are run with.
SampleRuleFiles ==
    { <<>>,
      << <<"S", ":", "l", " ", "2", " ", "A", ";", "r", "\n">> >>,
      << <<"S", ":", "r", " ", "A", " ", "2", "\n">>,
         <<"2", ":", "l", " ", "A", "\n">> >>,
      << <<"S", ":", "l", " ", "S", ";", "r", " ", "2", ";", "l", "\n">>,
         <<"A", ":", "r", "\n">> >> }

----------------------------------------------------------------------------
(* Spec: one call of Convertor.convert, from the tree fromstring returned. *)

Init ==
    /\ pc = "preprocess"
    /\ \E rf \in SampleRuleFiles : head_rules = _load_head_rules(rf).rules
    /\ \E K \in 1..MaxNodes : \E par \in TreeShapes(K) :
           \E lab \in [1..K -> Cats] : tree = TreeOf(par, lab)
    /\ ptree = <<>>
    /\ sequences = <<>>
    /\ mtree = <<>>
    /\ relations = <<>>
    /\ parsed = <<>>
    /\ deps = <<>>
    /\ err = "none"
    /\ rule_file = <<>>
    /\ f_in = <<>>
    /\ f_out = <<>>
    /\ lineno = 0

\* tree, sequences = _preprosess(tree)
Preprocess ==
    /\ pc = "preprocess"
    /\ LET r == _preprosess(tree)
       IN  /\ ptree' = r.tree
           /\ sequences' = r.items
    /\ pc' = "mark_heads"
    /\ UNCHANGED <<head_rules, tree, mtree, relations, parsed, deps, err,
                   rule_file, f_in, f_out, lineno>>

\* tree = self.__mark_heads(tree)
MarkHeads ==
    /\ pc = "mark_heads"
    /\ LET r == __mark_heads(head_rules, ptree)
       IN  IF r.err # "none"
           THEN /\ err' = r.err
                /\ pc' = "raised"
                /\ mtree' = mtree
           ELSE /\ mtree' = r.tree
                /\ pc' = "get_relations"
                /\ err' = err
    /\ UNCHANGED <<head_rules, tree, ptree, sequences, relations, parsed,
                   deps, rule_file, f_in, f_out, lineno>>

\* relations = _get_relations(tree)
GetRelations ==
    /\ pc = "get_relations"
    /\ LET r == _get_relations(mtree)
       IN  IF r.err # "none"
           THEN /\ err' = r.err
                /\ pc' = "raised"
                /\ relations' = relations
           ELSE /\ relations' = r.relations
                /\ pc' = "zip"
                /\ err' = err
    /\ UNCHANGED <<head_rules, tree, ptree, sequences, mtree, parsed, deps,
                   rule_file, f_in, f_out, lineno>>

\* the list comprehension over zip(sequences, relations); return relations
Zip ==
    /\ pc = "zip"
    /\ parsed' = ZipRelations(sequences, relations)
    /\ pc' = "format"
    /\ UNCHANGED <<head_rules, tree, ptree, sequences, mtree, relations,
                   deps, err, rule_file, f_in, f_out, lineno>>

\* lines = [...]; return '\n'.join(lines) + '\n'
Return ==
    /\ pc = "format"
    /\ deps' = FormatRows(parsed)
    /\ pc' = "returned"
    /\ UNCHANGED <<head_rules, tree, ptree, sequences, mtree, relations,
                   parsed, err, rule_file, f_in, f_out, lineno>>

Next == Preprocess \/ MarkHeads \/ GetRelations \/ Zip \/ Return

Spec == Init /\ [][Next]_vars

----------------------------------------------------------------------------
(* SpecLoad: _load_head_rules, one line of the rule file per step.         *)

\* Lines a rule file is made of: well-formed ones, one whose direction is
\* neither l nor r, one without ':', one with two ':', one with an empty
\* rule after ';'.
RuleLines ==
    { <<"S", ":", "l", " ", "2", " ", "A", ";", "r", "\n">>,
      <<"S", ":", "r", " ", "A", "\n">>,
      <<"2", ":", "l", "\n">>,
      <<"A", ":", "x", " ", "2", "\n">>,
      <<"S", " ", "l", " ", "A", "\n">>,
      <<"S", ":", "l", ":", "A", "\n">>,
      <<"S", ":", "l", " ", "A", ";", "\n">> }

SeqsUpTo(S, n) == UNION {[1..k -> S] : k \in 0..n}

LoadInit ==
    /\ pc = "load"
    /\ rule_file \in SeqsUpTo(RuleLines, MaxRuleLines)
    /\ head_rules = NoRules
    /\ lineno = 0
    /\ err = "none"
    /\ tree = <<>>
    /\ ptree = <<>>
    /\ sequences = <<>>
    /\ mtree = <<>>
    /\ relations = <<>>
    /\ parsed = <<>>
    /\ deps = <<>>
    /\ f_in = <<>>
    /\ f_out = <<>>

\* one iteration of `for line in f`
LoadNextLine ==
    /\ pc = "load"
    /\ lineno < Len(rule_file)
    /\ LET r == LoadLine(head_rules, rule_file[lineno + 1])
       IN  IF r.err # "none"
           THEN /\ err' = r.err
                /\ pc' = "raised"
                /\ UNCHANGED <<head_rules, lineno>>
           ELSE /\ head_rules' = r.rules
                /\ lineno' = lineno + 1
                /\ UNCHANGED <<pc, err>>
    /\ UNCHANGED <<tree, ptree, sequences, mtree, relations, parsed, deps,
                   rule_file, f_in, f_out>>

\* return rules
LoadReturn ==
    /\ pc = "load"
    /\ lineno = Len(rule_file)
    /\ pc' = "loaded"
    /\ UNCHANGED <<head_rules, tree, ptree, sequences, mtree, relations,
                   parsed, deps, err, rule_file, f_in, f_out, lineno>>

LoadNext == LoadNextLine \/ LoadReturn

SpecLoad == LoadInit /\ [][LoadNext]_vars

----------------------------------------------------------------------------
(* SpecMain: the loop of main.py over the lines of ctb.bracketed.          *)

\* head_rules.txt of the driver runs
MainRuleFile == << <<"S", ":", "l", " ", "2", " ", "A", "\n">> >>

\* A line of ctb.bracketed: its text, and what ParentedTree.fromstring makes
\* of it (ok = FALSE: fromstring raises ValueError).
CommentLine ==
    [text |-> <<"#", " ", "1", "\n">>, ok |-> FALSE, tree |-> <<>>]

\* (2 a)
LeafLine ==
    [text |-> <<"(", "2", " ", "a", ")", "\n">>, ok |-> TRUE,
     tree |-> << [label |-> <<"2">>, parent |-> 0, token |-> <<"a">>] >>]

\* (S (A-X a) (2 b))
PhraseLine ==
    [text |-> <<"(", "S", " ", "(", "A", "-", "X", " ", "a", ")", " ",
                "(", "2", " ", "b", ")", ")", "\n">>,
     ok |-> TRUE,
     tree |-> << [label |-> <<"S">>, parent |-> 0, token |-> <<>>],
                 [label |-> <<"A", "-", "X">>, parent |-> 1, token |-> <<"a">>],
                 [label |-> <<"2">>, parent |-> 1, token |-> <<"b">>] >>]

\* (S (2 a)  -- the closing bracket is missing
MalformedLine ==
    [text |-> <<"(", "S", " ", "(", "2", " ", "a", ")", "\n">>,
     ok |-> FALSE, tree |-> <<>>]

\* (S (S (2 a))) -- no rule of S matches the outer node's only child
UnmatchedLine ==
    [text |-> <<"(", "S", " ", "(", "S", " ", "(", "2", " ", "a", ")", ")",
                ")", "\n">>,
     ok |-> TRUE,
     tree |-> << [label |-> <<"S">>, parent |-> 0, token |-> <<>>],
                 [label |-> <<"S">>, parent |-> 1, token |-> <<>>],
                 [label |-> <<"2">>, parent |-> 2, token |-> <<"a">>] >>]

SampleLines ==
    {CommentLine, LeafLine, PhraseLine, MalformedLine, UnmatchedLine}

\* Convertor.convert(line): the text returned or the exception raised
convert(rules, line) ==
    IF ~line.ok THEN [err |-> "ValueError", deps |-> <<>>]
    ELSE LET p == _preprosess(line.tree)
             m == __mark_heads(rules, p.tree)
             g == _get_relations(m.tree)
         IN  IF m.err # "none" THEN [err |-> m.err, deps |-> <<>>]
             ELSE IF g.err # "none" THEN [err |-> g.err, deps |-> <<>>]
             ELSE [err |-> "none",
                   deps |-> FormatRows(ZipRelations(p.items, g.relations))]

MainInit ==
    /\ pc = "main"
    /\ head_rules = _load_head_rules(MainRuleFile).rules
    /\ rule_file = MainRuleFile
    /\ f_in \in SeqsUpTo(SampleLines, MaxLines)
    /\ f_out = <<>>
    /\ lineno = 0
    /\ err = "none"
    /\ tree = <<>>
    /\ ptree = <<>>
    /\ sequences = <<>>
    /\ mtree = <<>>
    /\ relations = <<>>
    /\ parsed = <<>>
    /\ deps = <<>>

\* if line.startswith('#'): f_out.write(line)
CopyComment ==
    /\ pc = "main"
    /\ lineno < Len(f_in)
    /\ f_in[lineno + 1].text[1] = "#"
    /\ f_out' = Append(f_out, f_in[lineno + 1].text)
    /\ lineno' = lineno + 1
    /\ UNCHANGED <<pc, head_rules, tree, ptree, sequences, mtree, relations,
                   parsed, deps, err, rule_file, f_in>>

\* else: deps = convertor.convert(line); f_out.write(deps + '\n')
\* Nothing catches an exception of convert: it ends the program.
ConvertLine ==
    /\ pc = "main"
    /\ lineno < Len(f_in)
    /\ f_in[lineno + 1].text[1] # "#"
    /\ LET r == convert(head_rules, f_in[lineno + 1])
       IN  IF r.err # "none"
           THEN /\ err' = r.err
                /\ pc' = "aborted"
                /\ UNCHANGED <<deps, f_out, lineno>>
           ELSE /\ deps' = r.deps
                /\ f_out' = Append(f_out, r.deps \o <<"\n">>)
                /\ lineno' = lineno + 1
                /\ UNCHANGED <<pc, err>>
    /\ UNCHANGED <<head_rules, tree, ptree, sequences, mtree, relations,
                   parsed, rule_file, f_in>>

\* the loop is over: both files are closed
MainExit ==
    /\ pc = "main"
    /\ lineno = Len(f_in)
    /\ pc' = "exit"
    /\ UNCHANGED <<head_rules, tree, ptree, sequences, mtree, relations,
                   parsed, deps, err, rule_file, f_in, f_out, lineno>>

MainNext == CopyComment \/ ConvertLine \/ MainExit

SpecMain == MainInit /\ [][MainNext]_vars

----------------------------------------------------------------------------
(* Vocabulary of the claims, stated on the input tree and the rule table.  *)

\* the leaves of t; preorder numbers grow from left to right
LeafNodes(t) == {n \in 1..Len(t) : \A m \in 1..Len(t) : t[m].parent # n}

NLeaves(t) == Cardinality(LeafNodes(t))

\* 1-based rank of leaf n in the left-to-right traversal
Rank(t, n) == Cardinality({m \in LeafNodes(t) : m <= n})

LeafAt(t, k) == CHOOSE n \in LeafNodes(t) : Rank(t, n) = k

\* child nodes of n as a set
Kids(t, n) == {m \in 1..Len(t) : t[m].parent = n}

InternalNodes(t) == (1..Len(t)) \ LeafNodes(t)

\* the text of a label before its first '-'
BeforeDash(label) ==
    IF \A i \in DOMAIN label : label[i] # "-" THEN label
    ELSE SubSeq(label, 1,
                (CHOOSE i \in DOMAIN label :
                     label[i] = "-" /\ \A j \in 1..(i - 1) : label[j] # "-") - 1)

\* a rule succeeds on a set of child categories
Succeeds(rule, cats) ==
    rule.tags = <<>> \/ \E j \in DOMAIN rule.tags : rule.tags[j] \in cats

KidCats(t, n) == {t[m].label : m \in Kids(t, n)}

\* node n of the preprocessed tree t gets a head under the table
Resolves(rules, t, n) ==
    \/ t[n].label \notin DOMAIN rules
    \/ \E i \in DOMAIN rules[t[n].label] :
           Succeeds(rules[t[n].label][i], KidCats(t, n))

AllResolve(rules, t) == \A n \in InternalNodes(t) : Resolves(rules, t, n)

SetMin(S) == CHOOSE x \in S : \A y \in S : x <= y

SetMax(S) == CHOOSE x \in S : \A y \in S : x >= y

\* the head child of node n as the head rules describe it, for a node whose
\* category has rules of which one succeeds
HeadChild(rules, t, n) ==
    LET rl == rules[t[n].label]
        r == rl[SetMin({i \in DOMAIN rl : Succeeds(rl[i], KidCats(t, n))})]
    IN  IF r.tags = <<>>
        THEN IF r.direction = <<"r">> THEN SetMax(Kids(t, n))
             ELSE SetMin(Kids(t, n))
        ELSE LET tag == r.tags[SetMin({j \in DOMAIN r.tags :
                                          r.tags[j] \in KidCats(t, n)})]
                 M == {m \in Kids(t, n) : t[m].label = tag}
             IN  IF r.direction = <<"r">> THEN SetMax(M) ELSE SetMin(M)

\* _preprosess has just returned (ptree and sequences are not written again)
Preprocessed == pc = "mark_heads"

\* __mark_heads has just returned
Marked == pc = "get_relations"

\* _get_relations has just returned
Extracted == pc = "zip"

\* the head of a relation as a number
HeadNum(r) == IF r[2].t = "int" THEN r[2].v ELSE ToInt(r[2].v)

\* following dependent -> head from index d reaches 0 within k steps,
\* whichever relation of d is followed
RECURSIVE ReachesRoot(_, _, _)
ReachesRoot(rels, d, k) ==
    \/ d = 0
    \/ /\ k > 0
       /\ \E i \in DOMAIN rels : ToInt(rels[i][1]) = d
       /\ \A i \in DOMAIN rels :
              ToInt(rels[i][1]) = d => ReachesRoot(rels, HeadNum(rels[i]), k - 1)

----------------------------------------------------------------------------
(* The claims.                                                             *)

\* C1: when every internal node's category is absent from the table or has
\* a rule that matches, _get_relations returns exactly N relations for the
\* N leaves, and each index 1..N is the dependent of exactly one of them.
C1_OneRelationPerLeaf ==
    (pc \in {"raised", "zip"} /\ AllResolve(head_rules, ptree)) =>
        /\ pc # "raised"
        /\ Extracted =>
              /\ Len(relations) = NLeaves(tree)
              /\ \A i \in 1..NLeaves(tree) :
                     Cardinality({k \in DOMAIN relations :
                                     relations[k][1] = Str(i)}) = 1

C1_Witness ==
    /\ pc = "zip"
    /\ AllResolve(head_rules, ptree)
    /\ NLeaves(tree) = 3
    /\ \E n \in InternalNodes(tree) : n # 1 /\ ptree[n].label \in DOMAIN head_rules

\* C2: when heads all resolve, exactly one relation has head 0 and from
\* every dependent the head links lead to 0 in at most N steps (so without
\* a cycle).
C2_SingleRootedTree ==
    (Extracted /\ AllResolve(head_rules, ptree)) =>
        /\ Cardinality({k \in DOMAIN relations : HeadNum(relations[k]) = 0}) = 1
        /\ \A k \in DOMAIN relations :
               ReachesRoot(relations, ToInt(relations[k][1]), NLeaves(tree))

C2_Witness ==
    /\ pc = "zip"
    /\ AllResolve(head_rules, ptree)
    /\ NLeaves(tree) = 3
    /\ \E k \in DOMAIN relations :
           ~ReachesRoot(relations, ToInt(relations[k][1]), 2)

\* C3: _preprosess replaces the token of each leaf by its 1-based rank in
\* the left-to-right traversal, and the k-th returned pair carries the
\* token text of the leaf of rank k.
C3_IndexIsRank ==
    Preprocessed =>
        /\ Len(ptree) = Len(tree)
        /\ Len(sequences) = NLeaves(tree)
        /\ \A n \in LeafNodes(tree) : ptree[n].token = Rank(tree, n)
        /\ \A k \in DOMAIN sequences :
               sequences[k][2] = tree[LeafAt(tree, k)].token

\* (S (X a b) c): a nested node with two leaves, then a leaf
C3_Witness ==
    /\ pc = "mark_heads"
    /\ Len(tree) = 5
    /\ tree[2].parent = 1 /\ tree[3].parent = 2 /\ tree[4].parent = 2
    /\ tree[5].parent = 1
    /\ ptree[5].token = 3

\* C4: for a node whose category has rules, the first rule that succeeds
\* fixes the head child: without tags the extreme child in the scan
\* direction, with tags the first tag (in tag order) some child carries and
\* the first child carrying it in the scan direction; the node takes that
\* child's head index.
C4_FirstMatchingRule ==
    Marked =>
        \A n \in InternalNodes(ptree) :
            (/\ ptree[n].label \in DOMAIN head_rules
             /\ \E i \in DOMAIN head_rules[ptree[n].label] :
                    Succeeds(head_rules[ptree[n].label][i], KidCats(ptree, n)))
            => mtree[n].label =
                   IndexOf(mtree[HeadChild(head_rules, ptree, n)].label)
                   \o <<"|">> \o ptree[n].label

\* direction right, the first tag matches nothing, two children carry the
\* second tag and the last child carries neither
C4_Witness ==
    /\ Marked
    /\ \E n \in InternalNodes(ptree) :
          /\ ptree[n].label \in DOMAIN head_rules
          /\ LET r == head_rules[ptree[n].label][1]
             IN  /\ r.direction = <<"r">>
                 /\ Len(r.tags) = 2
                 /\ r.tags[1] \notin KidCats(ptree, n)
                 /\ Cardinality({m \in Kids(ptree, n) :
                                    ptree[m].label = r.tags[2]}) = 2
                 /\ ptree[SetMax(Kids(ptree, n))].label # r.tags[2]
                 /\ HeadChild(head_rules, ptree, n) # SetMax(Kids(ptree, n))
                 /\ HeadChild(head_rules, ptree, n) # SetMin(Kids(ptree, n))

\* C5: a node whose category has no entry in the table takes the head
\* index of its last child, whatever the children are.
C5_FallbackLastChild ==
    Marked =>
        \A n \in InternalNodes(ptree) :
            ptree[n].label \notin DOMAIN head_rules =>
                mtree[n].label =
                    IndexOf(mtree[SetMax(Kids(ptree, n))].label)
                    \o <<"|">> \o ptree[n].label

\* an unlisted node with three children whose last child is itself a phrase
C5_Witness ==
    /\ Marked
    /\ \E n \in InternalNodes(ptree) :
          /\ ptree[n].label \notin DOMAIN head_rules
          /\ Cardinality(Kids(ptree, n)) = 3
          /\ SetMax(Kids(ptree, n)) \in InternalNodes(ptree)
          /\ IndexOf(mtree[n].label) = Str(NLeaves(tree))

\* C6: when heads all resolve, convert returns N rows, and row i holds, in
\* the order index, token, _, _, category, _, head, X, _, _: the index i,
\* the token text and the category recorded for leaf i, and the head of the
\* relation whose dependent is i.
C6_RowsPairLeafAndRelation ==
    (pc = "returned" /\ AllResolve(head_rules, ptree)) =>
        LET rows == Split(deps, "\n")
            N == NLeaves(tree)
        IN  /\ Len(rows) = N + 1
            /\ rows[N + 1] = <<>>
            /\ \A i \in 1..N :
                   LET leaf == tree[LeafAt(tree, i)]
                       rel == relations[CHOOSE k \in DOMAIN relations :
                                            relations[k][1] = Str(i)]
                   IN  Split(rows[i], "\t") =
                           <<Str(i), leaf.token, <<"_">>, <<"_">>,
                             BeforeDash(leaf.label), <<"_">>,
                             Str(HeadNum(rel)), <<"X">>, <<"_">>, <<"_">> >>

\* three rows, the first relation yielded not being that of leaf 1
C6_Witness ==
    /\ pc = "returned"
    /\ AllResolve(head_rules, ptree)
    /\ NLeaves(tree) = 3
    /\ RelIterate(mtree, 1)[1][1] = <<"3">>
    /\ HeadNum(relations[2]) = 3

\* C7: when no rule of a listed category matches a node's children, the
\* conversion ends in a fatal UnresolvedHead error: no rows are produced
\* for the tree.
C7_UnresolvedHeadIsFatal ==
    (pc \in {"raised", "returned"} /\ ~AllResolve(head_rules, ptree)) =>
        /\ pc # "returned"
        /\ deps = <<>>

\* C8 as claimed: the category recorded for a leaf is the leaf's category
\* as it stands in the input tree.
C8_CategoryAsInInput ==
    Preprocessed =>
        \A k \in DOMAIN sequences :
            sequences[k] = <<tree[LeafAt(tree, k)].label,
                             tree[LeafAt(tree, k)].token>>

\* C8 amended: the pair recorded for the k-th leaf is (the leaf's category
\* cut before its first '-', the leaf's token text before its replacement).
C8_CategoryCleaned ==
    Preprocessed =>
        /\ Len(sequences) = NLeaves(tree)
        /\ \A k \in DOMAIN sequences :
               sequences[k] = <<BeforeDash(tree[LeafAt(tree, k)].label),
                                tree[LeafAt(tree, k)].token>>

C8_Witness ==
    /\ pc = "mark_heads"
    /\ Len(sequences) = 2
    /\ tree[LeafAt(tree, 1)].label = <<"A", "-", "X">>
    /\ sequences[1][1] = <<"A">>
    /\ sequences[2][1] = <<"2">>

\* C9: loading fails whenever a line lacks ':' or a rule's direction is
\* neither l nor r: a table that was returned holds no such rule.
C9_BadRuleFileRejected ==
    pc = "loaded" =>
        /\ \A i \in DOMAIN rule_file : ":" \in Range(rule_file[i])
        /\ \A c \in DOMAIN head_rules : \A i \in DOMAIN head_rules[c] :
               head_rules[c][i].direction \in {<<"l">>, <<"r">>}

\* what ctb.conll holds when failing sentences are skipped
RECURSIVE SkippingOutput(_, _)
SkippingOutput(rules, lines) ==
    IF lines = <<>> THEN <<>>
    ELSE LET line == Head(lines)
             r == convert(rules, line)
         IN  (IF line.text[1] = "#" THEN <<line.text>>
              ELSE IF r.err = "none" THEN <<r.deps \o <<"\n">> >>
              ELSE <<>>)
             \o SkippingOutput(rules, Tail(lines))

\* C10: a sentence whose conversion fails is skipped and every later line
\* is still processed: when the program ends, the output is that of the
\* input without the failing sentences.
C10_FailingSentenceSkipped ==
    pc \in {"exit", "aborted"} => f_out = SkippingOutput(head_rules, f_in)

=============================================================================
